---------------------------- MODULE Spec2Model ----------------------------
(***************************************************************************)
(* The trip-planning HTTP service of travel_agent_api.py: the route table, *)
(* the plan_trip handler (validation, defaults, prompt rendering, the one  *)
(* blocking upstream call, the response envelopes) and the 404/405         *)
(* handlers, with several requests in flight.                              *)
(*                                                                         *)
(* Text is a sequence of atoms (a tuple of strings); concatenation is \o.  *)
(* A user-supplied string is the sequence of its characters or words, a    *)
(* literal of the source is one atom.  A multi-line text is a sequence of  *)
(* lines.  The generatedAt timestamp of the success envelope is left out:  *)
(* it is the only field that reads the clock.                              *)
(***************************************************************************)
EXTENDS Integers, Sequences, FiniteSets, TLC

VARIABLES
  client,   \* the module-level upstream client (its credential)
  pc,       \* per serving slot: "idle", "calling" (blocked upstream), "done"
  req,      \* per slot: the inbound request being handled
  locals,   \* per slot: the handler's local variables across the call
  calls,    \* per slot: the upstream calls issued while handling the request
  result,   \* per slot: what the upstream call returned or raised
  resp      \* per slot: the response sent

vars == <<client, pc, req, locals, calls, result, resp>>

(***************************************************************************)
(* JSON values as the handler sees them after request.get_json().          *)
(***************************************************************************)
Absent == [k |-> "absent", s |-> <<>>, n |-> 0, l |-> <<>>]

JNull == [k |-> "null", s |-> <<>>, n |-> 0, l |-> <<>>]

JStr(s) == [k |-> "str", s |-> s, n |-> 0, l |-> <<>>]

JNum(n) == [k |-> "num", s |-> <<>>, n |-> n, l |-> <<>>]

JList(l) == [k |-> "list", s |-> <<>>, n |-> 0, l |-> l]

\* Python truthiness: None, "", 0 and [] are false.
Truthy(v) ==
  CASE v.k = "str" -> v.s # <<>>
    [] v.k = "num" -> v.n # 0
    [] v.k = "list" -> v.l # <<>>
    [] OTHER -> FALSE

\* dict.get(key): None for a missing key.
Get(data, key) == IF data[key].k = "absent" THEN JNull ELSE data[key]

\* data.get(key) or default: the default for any false value too.
GetOrDefault(data, key, default) ==
  IF Truthy(Get(data, key)) THEN data[key] ELSE default

\* dict.get(key, default): the default only for a missing key.
GetDefault(data, key, default) ==
  IF data[key].k = "absent" THEN default ELSE data[key]

RECURSIVE Join(_, _)
\* sep.join(items), items a sequence of texts.
Join(items, sep) ==
  IF items = <<>> THEN <<>>
  ELSE IF Len(items) = 1 THEN items[1]
  ELSE items[1] \o sep \o Join(Tail(items), sep)

\* str(v) as an f-string renders it; a list renders as its repr.
Format(v) ==
  CASE v.k = "str" -> v.s
    [] v.k = "num" -> <<ToString(v.n)>>
    [] v.k = "list" ->
         <<"[">> \o
         Join([i \in 1..Len(v.l) |->
                 IF v.l[i].k = "str" THEN <<"'">> \o v.l[i].s \o <<"'">>
                 ELSE IF v.l[i].k = "num" THEN <<ToString(v.l[i].n)>>
                 ELSE <<"None">>], <<", ">>)
         \o <<"]">>
    [] OTHER -> <<"None">>

\* ', '.join(x): x a str is iterated by character, x a list must hold only
\* str items, anything else raises TypeError.
JoinInterests(x) ==
  CASE x.k = "str" ->
         [ok |-> TRUE, val |-> Join([i \in 1..Len(x.s) |-> <<x.s[i]>>], <<", ">>)]
    [] x.k = "list" /\ \A i \in 1..Len(x.l) : x.l[i].k = "str" ->
         [ok |-> TRUE, val |-> Join([i \in 1..Len(x.l) |-> x.l[i].s], <<", ">>)]
    [] OTHER -> [ok |-> FALSE, val |-> <<>>]

required_fields == <<"destination", "travelers", "duration">>

RECURSIVE SelectFirstMissing(_, _)
\* A validator that stops at the first missing field.
SelectFirstMissing(data, fields) ==
  IF fields = <<>> THEN <<>>
  ELSE IF Truthy(Get(data, Head(fields)))
  THEN SelectFirstMissing(data, Tail(fields))
  ELSE <<<<Head(fields)>>>>

RECURSIVE SelectMissing(_, _)
\* [field for field in fields if not data.get(field)]
SelectMissing(data, fields) ==
  IF fields = <<>> THEN <<>>
  ELSE (IF Truthy(Get(data, Head(fields))) THEN <<>> ELSE <<<<Head(fields)>>>>)
       \o SelectMissing(data, Tail(fields))

missing_fields(data) == SelectMissing(data, required_fields)

(***************************************************************************)
(* Response envelopes.                                                     *)
(***************************************************************************)
\* jsonify({"error": True, "message": ..., "statusCode": code}), code
ErrorEnvelope(message, code) ==
  [status |-> code, json |-> TRUE,
   body |-> [error |-> TRUE, message |-> message, statusCode |-> code]]

\* What the framework itself answers when the view raises: an HTTPException
\* (400 from get_json) or any other exception (500) reaches no handler of
\* the application, which registers handlers for 404 and 405 only.
FrameworkPage(code) ==
  [status |-> code, json |-> FALSE, body |-> [page |-> code]]

home ==
  [status |-> 200, json |-> TRUE,
   body |-> [status |-> <<"online">>,
             service |-> <<"AI Travel Planning Agent">>,
             version |-> <<"1.0">>,
             endpoints |-> [plan_trip |-> <<"/api/plan-trip">>]]]

not_found ==
  ErrorEnvelope(<<"Endpoint not found. Use POST /api/plan-trip">>, 404)

method_not_allowed ==
  ErrorEnvelope(<<"Method not allowed. Use POST request.">>, 405)

NoResp == [status |-> 0, json |-> FALSE, body |-> [page |-> 0]]

(***************************************************************************)
(* The prompt templates.                                                   *)
(***************************************************************************)
ModelId == <<"claude-sonnet-4-5-20250929">>

max_tokens == 8000

temperature == <<"0.8">>

system_prompt ==
  << <<"You are an expert travel planning AI agent with 20+ years of experience in creating personalized travel itineraries. You have deep knowledge of destinations worldwide, cultural insights, logistics optimization, and budget management.">>,
     <<>>,
     <<"Your approach is:">>,
     <<"- Thorough and detail-oriented">>,
     <<"- Culturally sensitive and authentic">>,
     <<"- Budget-conscious while maximizing value">>,
     <<"- Focused on creating memorable experiences">>,
     <<"- Practical with realistic timing and logistics">>,
     <<>>,
     <<"You create comprehensive travel plans that include:">>,
     <<"- Flight recommendations with specific airlines and routes">>,
     <<"- Accommodation suggestions with pricing">>,
     <<"- Day-by-day detailed itineraries">>,
     <<"- Restaurant and dining recommendations">>,
     <<"- Activity bookings and timing">>,
     <<"- Transportation logistics">>,
     <<"- Budget breakdown">>,
     <<"- Pro tips and local insights">> >>
TemplateTail ==
  << <<"**Required Deliverables:**">>,
     <<>>,
     <<"1. **EXECUTIVE SUMMARY** (2-3 paragraphs)">>,
     <<"   - Trip overview and highlights">>,
     <<"   - What makes this itinerary special">>,
     <<"   - Budget summary">>,
     <<>>,
     <<"2. **FLIGHTS & TRANSPORTATION**">>,
     <<"   - Specific flight recommendations (airline, route, approximate pricing)">>,
     <<"   - Airport transfers">>,
     <<"   - Local transportation options">>,
     <<"   - Inter-city travel if applicable">>,
     <<>>,
     <<"3. **ACCOMMODATIONS**">>,
     <<"   - Hotel/lodging recommendations for each location">>,
     <<"   - Why each is a good fit">>,
     <<"   - Approximate nightly rates and total">>,
     <<"   - Booking tips">>,
     <<>>,
     <<"4. **DETAILED DAY-BY-DAY ITINERARY**">>,
     <<"   For EACH day include:">>,
     <<"   - Day number and date">>,
     <<"   - Morning activities (with times)">>,
     <<"   - Lunch recommendations">>,
     <<"   - Afternoon activities">>,
     <<"   - Dinner suggestions">>,
     <<"   - Evening options">>,
     <<"   - Approximate costs per activity">>,
     <<"   - Pro tips and insider advice">>,
     <<>>,
     <<"5. **RESTAURANT & DINING GUIDE**">>,
     <<"   - 10-15 restaurant recommendations">>,
     <<"   - Cuisine type, price range, why recommended">>,
     <<"   - Reservation requirements">>,
     <<>>,
     <<"6. **ACTIVITIES & EXPERIENCES**">>,
     <<"   - Must-do attractions with timing and cost">>,
     <<"   - Hidden gems">>,
     <<"   - Cultural experiences">>,
     <<"   - Family-friendly options">>,
     <<"   - Booking requirements">>,
     <<>>,
     <<"7. **BUDGET BREAKDOWN**">>,
     <<"   - Flights: $X">>,
     <<"   - Accommodations: $X">>,
     <<"   - Activities: $X">>,
     <<"   - Meals: $X">>,
     <<"   - Transportation: $X">>,
     <<"   - Contingency: $X">>,
     <<"   - **Total: $X**">>,
     <<>>,
     <<"8. **PRACTICAL TIPS**">>,
     <<"   - Best time to visit attractions (avoid crowds)">>,
     <<"   - What to pack">>,
     <<"   - Cultural etiquette">>,
     <<"   - Money-saving tips">>,
     <<"   - Safety considerations">>,
     <<"   - Phone/internet recommendations">>,
     <<>>,
     <<"9. **BOOKING CHECKLIST & TIMELINE**">>,
     <<"   - What to book immediately">>,
     <<"   - What to book 1-2 months before">>,
     <<"   - What to book upon arrival">>,
     <<"   - Required reservations">>,
     <<>>,
     <<"10. **CALENDAR EXPORT READY**">>,
     <<"    - Format the itinerary so it can be easily added to digital calendars">>,
     <<"    - Include specific times and locations">>,
     <<>>,
     <<"**Style Guidelines:**">>,
     <<"- Be specific with names, prices, and timing">>,
     <<"- Use real hotel/restaurant names when possible">>,
     <<"- Include approximate costs in USD">>,
     <<"- Write in a friendly, enthusiastic tone">>,
     <<"- Make it practical and actionable">>,
     <<"- Include pro tips that show local knowledge">>,
     <<>>,
     <<"Generate a complete, professional travel plan that someone could actually use to book and enjoy this trip!">> >>

\* The conditional line of the task template: the f-string expression
\* renders the text or nothing, and the newline after it stays.
SpecialRequestsLine(special_requests) ==
  IF Truthy(special_requests)
  THEN <<"- Special Requests: ">> \o Format(special_requests)
  ELSE <<>>

\* The interpolated head of the task template, one text per line.
TemplateHead(v) ==
  << <<"Create a comprehensive, personalized travel itinerary with the following parameters:">>,
     <<>>,
     <<"**Trip Overview:**">>,
     <<"- Destination: ">> \o Format(v.destination),
     <<"- Travelers: ">> \o Format(v.travelers),
     <<"- Duration: ">> \o Format(v.duration),
     <<"- Travel Dates: ">> \o Format(v.dates),
     <<"- Budget: ">> \o Format(v.budget),
     <<"- Departing From: ">> \o Format(v.departure_city),
     <<"- Interests: ">> \o v.interests,
     <<"- Preferred Pace: ">> \o Format(v.pace),
     SpecialRequestsLine(v.special_requests),
     <<>> >>

user_prompt(v) == TemplateHead(v) \o TemplateTail

DefaultInterests ==
  JList(<<JStr(<<"sightseeing">>), JStr(<<"culture">>), JStr(<<"food">>)>>)

\* The handler's locals after "Extract data with defaults"; interests is
\* the joined text (ok is FALSE when the join raises TypeError).
ExtractData(data) ==
  LET j == JoinInterests(GetDefault(data, "interests", DefaultInterests))
  IN [ok |-> j.ok,
      destination |-> Get(data, "destination"),
      travelers |-> Get(data, "travelers"),
      duration |-> Get(data, "duration"),
      dates |-> GetDefault(data, "dates", JStr(<<"Flexible">>)),
      budget |-> GetDefault(data, "budget", JStr(<<"Moderate budget">>)),
      departure_city |-> GetDefault(data, "departureCity", JStr(<<"United States">>)),
      interests |-> j.val,
      pace |-> GetDefault(data, "pace", JStr(<<"moderate">>)),
      special_requests |-> GetDefault(data, "specialRequests", JStr(<<>>))]

NoLocals == [ok |-> FALSE]

\* The arguments of client.messages.create.
CreateArgs(v) ==
  [model |-> ModelId, max_tokens |-> max_tokens, temperature |-> temperature,
   system |-> system_prompt,
   messages |-> << [role |-> "user", content |-> user_prompt(v)] >>]

(***************************************************************************)
(* The cost arithmetic.  Python floats are IEEE-754 binary64: a value is   *)
(* zero (m = <<>>) or a 53-bit significand m times 2^e.  Every operation   *)
(* rounds its exact result to nearest, ties to even.  Big naturals are     *)
(* sequences of LimbBits-bit limbs, least significant first.               *)
(***************************************************************************)
Precision == 53

LimbBits == 10

Base == 2 ^ LimbBits

FZero == [m |-> <<>>, e |-> 0]

Front(s) == SubSeq(s, 1, Len(s) - 1)

Rest(s) == IF s = <<>> THEN <<>> ELSE Tail(s)

Limb(x, i) == IF i >= 1 /\ i <= Len(x) THEN x[i] ELSE 0

RECURSIVE Trim(_)
\* Without its most significant zero limbs.
Trim(x) == IF x = <<>> \/ x[Len(x)] # 0 THEN x ELSE Trim(Front(x))

RECURSIVE FromNat(_)
FromNat(n) == IF n = 0 THEN <<>> ELSE <<n % Base>> \o FromNat(n \div Base)

RECURSIVE ToNat(_)
ToNat(x) == IF x = <<>> THEN 0 ELSE Head(x) + Base * ToNat(Tail(x))

RECURSIVE SmallBitLen(_)
SmallBitLen(n) == IF n = 0 THEN 0 ELSE 1 + SmallBitLen(n \div 2)

BitLen(x) ==
  LET t == Trim(x)
  IN IF t = <<>> THEN 0
     ELSE LimbBits * (Len(t) - 1) + SmallBitLen(t[Len(t)])

\* Bit i of x, bit 0 the least significant.
Bit(x, i) == (Limb(x, i \div LimbBits + 1) \div 2 ^ (i % LimbBits)) % 2

\* Whether any of the s lowest bits of x is set.
LowNonzero(x, s) == \E i \in 0..(s - 1) : Bit(x, i) = 1

ShiftRight(x, s) ==
  LET w == s \div LimbBits
      r == s % LimbBits
      n == Len(x) - w
  IN IF n <= 0 THEN <<>>
     ELSE Trim([i \in 1..n |->
                  (x[i + w] \div 2 ^ r)
                  + (Limb(x, i + w + 1) % 2 ^ r) * 2 ^ (LimbBits - r)])

ShiftLeft(x, s) ==
  LET w == s \div LimbBits
      r == s % LimbBits
      n == Len(x) + w + 1
  IN Trim([i \in 1..n |->
             IF i <= w THEN 0
             ELSE (Limb(x, i - w) % 2 ^ (LimbBits - r)) * 2 ^ r
                  + (Limb(x, i - w - 1) \div 2 ^ (LimbBits - r))])

RECURSIVE AddBig(_, _, _)
AddBig(x, y, carry) ==
  IF x = <<>> /\ y = <<>> THEN (IF carry = 0 THEN <<>> ELSE <<carry>>)
  ELSE LET t == Limb(x, 1) + Limb(y, 1) + carry
       IN <<t % Base>> \o AddBig(Rest(x), Rest(y), t \div Base)

RECURSIVE MulSmall(_, _, _)
\* x * c + carry for a small natural c.
MulSmall(x, c, carry) ==
  IF x = <<>> /\ carry = 0 THEN <<>>
  ELSE LET t == Limb(x, 1) * c + carry
       IN <<t % Base>> \o MulSmall(Rest(x), c, t \div Base)

RECURSIVE DivSmall(_, _, _)
\* Long division of x by a small natural d, from the top limb down, r the
\* remainder carried in: the quotient and the final remainder.
DivSmall(x, d, r) ==
  IF x = <<>> THEN [q |-> <<>>, r |-> r]
  ELSE LET cur == r * Base + x[Len(x)]
           low == DivSmall(Front(x), d, cur % d)
       IN [q |-> Append(low.q, cur \div d), r |-> low.r]

\* The binary64 nearest to x * 2^e (plus a nonzero tail below the last bit
\* when sticky), ties to even.
RoundToDouble(x, e, sticky) ==
  LET n == BitLen(x)
      s == n - Precision
  IN IF n = 0 THEN FZero
     ELSE IF s <= 0 THEN [m |-> ShiftLeft(x, 0 - s), e |-> e + s]
     ELSE LET keep == ShiftRight(x, s)
              tail == sticky \/ LowNonzero(x, s - 1)
              up == Bit(x, s - 1) = 1 /\ (tail \/ Bit(keep, 0) = 1)
              inc == AddBig(keep, <<>>, 1)
          IN IF ~up THEN [m |-> keep, e |-> e + s]
             ELSE IF BitLen(inc) = Precision THEN [m |-> inc, e |-> e + s]
             ELSE [m |-> ShiftRight(inc, 1), e |-> e + s + 1]

\* The quotient is computed with this many fraction bits before rounding;
\* a divisor below 2^20 leaves at least Precision + 1 significant bits.
DivShift == 80

\* n / d for two ints (true division): the quotient correctly rounded.
FloatDivNat(n, d) ==
  IF n = 0 THEN FZero
  ELSE LET res == DivSmall(ShiftLeft(FromNat(n), DivShift), d, 0)
       IN RoundToDouble(Trim(res.q), 0 - DivShift, res.r # 0)

\* x * c for a float x and a small int c (exact as a float).
FloatMulSmall(x, c) ==
  IF x.m = <<>> THEN FZero ELSE RoundToDouble(MulSmall(x.m, c, 0), x.e, FALSE)

FloatAdd(x, y) ==
  IF x.m = <<>> THEN y
  ELSE IF y.m = <<>> THEN x
  ELSE LET lo == IF x.e < y.e THEN x.e ELSE y.e
       IN RoundToDouble(AddBig(ShiftLeft(x.m, x.e - lo),
                               ShiftLeft(y.m, y.e - lo), 0), lo, FALSE)

\* (input_tokens / 1_000_000 * 3) + (output_tokens / 1_000_000 * 15)
estimated_cost(input_tokens, output_tokens) ==
  FloatAdd(FloatMulSmall(FloatDivNat(input_tokens, 1000000), 3),
           FloatMulSmall(FloatDivNat(output_tokens, 1000000), 15))

\* Digits cut off after the fourth decimal place instead of rounded.
TenThousandthsTruncated(x) ==
  IF x.m = <<>> THEN 0
  ELSE LET nb == MulSmall(x.m, 10000, 0)
           shift == 0 - x.e
       IN IF shift <= 0 THEN ToNat(ShiftLeft(nb, 0 - shift))
          ELSE ToNat(ShiftRight(nb, shift))

\* round(x * 10^4) to an integer, ties to even, on the exact binary value:
\* the digits the format specification .4f prints.
TenThousandths(x) ==
  IF x.m = <<>> THEN 0
  ELSE LET nb == MulSmall(x.m, 10000, 0)
           shift == 0 - x.e
       IN IF shift <= 0 THEN ToNat(ShiftLeft(nb, 0 - shift))
          ELSE LET i == ToNat(ShiftRight(nb, shift))
                   half == Bit(nb, shift - 1) = 1
                   tail == LowNonzero(nb, shift - 1)
               IN IF half /\ (tail \/ i % 2 = 1) THEN i + 1 ELSE i

\* f"${estimated_cost:.4f}"
FormatCost(x) ==
  LET t == TenThousandths(x)
  IN <<"$", ToString(t \div 10000), ".",
       ToString((t \div 1000) % 10), ToString((t \div 100) % 10),
       ToString((t \div 10) % 10), ToString(t % 10)>>

(***************************************************************************)
(* The upstream generation service, as client.messages.create sees it: it  *)
(* raises, or returns a message with content blocks and usage metadata.    *)
(***************************************************************************)
Raise(text) ==
  [kind |-> "raise", error |-> text, content |-> <<>>,
   usage |-> [present |-> FALSE, input_tokens |-> 0, output_tokens |-> 0]]

Return(content, usage) ==
  [kind |-> "return", error |-> <<>>, content |-> content, usage |-> usage]

TextBlock(text) == [type |-> "text", text |-> text]

ToolUseBlock == [type |-> "tool_use", text |-> <<>>]

Usage(i, o) == [present |-> TRUE, input_tokens |-> i, output_tokens |-> o]

NoUsage == [present |-> FALSE, input_tokens |-> 0, output_tokens |-> 0]

NoResult == [kind |-> "none", error |-> <<>>, content |-> <<>>, usage |-> NoUsage]

AuthError == <<"Could not resolve authentication method.">>

(***************************************************************************)
(* plan_trip, in the two halves the blocking call splits it into.          *)
(***************************************************************************)
Responds(r) == [kind |-> "respond", resp |-> r, locals |-> NoLocals, call |-> <<>>]

\* A handler that builds the prompt and calls upstream before it looks at
\* the required fields.
PlanTripStartCallFirst(q) ==
  IF ~q.is_json
  THEN Responds(ErrorEnvelope(<<"Content-Type must be application/json">>, 400))
  ELSE IF q.body.kind = "unparseable" THEN Responds(FrameworkPage(400))
  ELSE IF q.body.kind # "object" THEN Responds(FrameworkPage(500))
  ELSE LET data == q.body.data
           missing == missing_fields(data)
           v == ExtractData(data)
       IN IF ~v.ok THEN Responds(FrameworkPage(500))
          ELSE IF missing # <<>>
          THEN [kind |-> "respond",
                resp |-> ErrorEnvelope(
                  <<"Missing required fields: ">> \o Join(missing, <<", ">>), 400),
                locals |-> NoLocals, call |-> <<CreateArgs(v)>>]
          ELSE [kind |-> "call", resp |-> NoResp, locals |-> v,
                call |-> <<CreateArgs(v)>>]

\* From the top of the handler to client.messages.create: a response, or
\* the locals and the one call issued.
PlanTripStart(q) ==
  IF ~q.is_json
  THEN Responds(ErrorEnvelope(<<"Content-Type must be application/json">>, 400))
  ELSE IF q.body.kind = "unparseable" THEN Responds(FrameworkPage(400))
  ELSE IF q.body.kind # "object" THEN Responds(FrameworkPage(500))
  ELSE LET data == q.body.data
           missing == missing_fields(data)
           v == ExtractData(data)
       IN IF missing # <<>>
          THEN Responds(ErrorEnvelope(
                 <<"Missing required fields: ">> \o Join(missing, <<", ">>), 400))
          ELSE IF ~v.ok THEN Responds(FrameworkPage(500))
          ELSE [kind |-> "call", resp |-> NoResp, locals |-> v,
                call |-> <<CreateArgs(v)>>]

GenerationError(text) ==
  ErrorEnvelope(<<"Error generating itinerary: ">> \o text, 500)

SuccessEnvelope(v, text, usage) ==
  [status |-> 200, json |-> TRUE,
   body |-> [success |-> TRUE,
             destination |-> v.destination,
             itinerary |-> text,
             summary |-> [travelers |-> v.travelers,
                          duration |-> v.duration,
                          dates |-> v.dates,
                          budget |-> v.budget,
                          interests |-> v.interests],
             metadata |-> [inputTokens |-> usage.input_tokens,
                           outputTokens |-> usage.output_tokens,
                           estimatedCost |->
                             FormatCost(estimated_cost(usage.input_tokens,
                                                       usage.output_tokens)),
                           model |-> ModelId]]]

\* The extraction moved out of the try block: a malformed result escapes.
HandleResultUnguarded(v, out) ==
  IF out.kind = "raise" THEN GenerationError(out.error)
  ELSE IF out.content = <<>> \/ out.content[1].type # "text" \/ ~out.usage.present
  THEN FrameworkPage(500)
  ELSE SuccessEnvelope(v, out.content[1].text, out.usage)

\* The last content block taken instead of the first.
HandleResultLastBlock(v, out) ==
  IF out.kind = "raise" THEN GenerationError(out.error)
  ELSE IF out.content = <<>> THEN GenerationError(<<"list index out of range">>)
  ELSE IF out.content[Len(out.content)].type # "text"
  THEN GenerationError(<<"'ToolUseBlock' object has no attribute 'text'">>)
  ELSE IF ~out.usage.present
  THEN GenerationError(<<"'NoneType' object has no attribute 'input_tokens'">>)
  ELSE SuccessEnvelope(v, out.content[Len(out.content)].text, out.usage)

\* The body of the try block after the call, and its except clause.
HandleResult(v, out) ==
  IF out.kind = "raise" THEN GenerationError(out.error)
  ELSE IF out.content = <<>> THEN GenerationError(<<"list index out of range">>)
  ELSE IF out.content[1].type # "text"
  THEN GenerationError(<<"'ToolUseBlock' object has no attribute 'text'">>)
  ELSE IF ~out.usage.present
  THEN GenerationError(<<"'NoneType' object has no attribute 'input_tokens'">>)
  ELSE SuccessEnvelope(v, out.content[1].text, out.usage)

\* The route table: GET /, POST /api/plan-trip, and the 404/405 handlers.
Dispatch(q) ==
  IF q.path = "/"
  THEN Responds(IF q.method = "GET" THEN home ELSE method_not_allowed)
  ELSE IF q.path = "/api/plan-trip"
  THEN (IF q.method = "POST" THEN PlanTripStart(q) ELSE Responds(method_not_allowed))
  ELSE Responds(not_found)

(***************************************************************************)
(* Inputs.                                                                 *)
(***************************************************************************)
NumSlots == 2

Slots == 1..NumSlots

EmptyData ==
  [destination |-> Absent, travelers |-> Absent, duration |-> Absent,
   dates |-> Absent, budget |-> Absent, departureCity |-> Absent,
   interests |-> Absent, pace |-> Absent, specialRequests |-> Absent]

Object(data) == [kind |-> "object", data |-> data]

NonObject(kind) == [kind |-> kind, data |-> EmptyData]

Request(method, path, is_json, body) ==
  [method |-> method, path |-> path, is_json |-> is_json, body |-> body]

NoReq == Request("", "", FALSE, NonObject("raw"))

InterestValues ==
  { Absent, JNull, JList(<<>>), JStr(<<"a", "b">>),
    JList(<<JStr(<<"history">>), JStr(<<"food">>), JStr(<<"beaches">>)>>),
    JList(<<JStr(<<"food">>), JNum(7)>>) }

\* Every combination of these field values.
FullData ==
  [destination : {Absent, JStr(<<>>), JStr(<<"Greece">>)},
   travelers : {Absent, JNull, JStr(<<"2 adults">>)},
   duration : {Absent, JNum(0), JNum(7)},
   dates : {Absent, JStr(<<>>), JStr(<<"June 15-22, 2026">>)},
   budget : {Absent, JStr(<<"$8,000-10,000">>)},
   departureCity : {Absent, JStr(<<"Austin, Texas">>)},
   interests : InterestValues,
   pace : {Absent, JStr(<<"relaxed">>)},
   specialRequests : {Absent, JStr(<<>>), JStr(<<"vegetarian", " ", "only">>)}]

Minimal ==
  [EmptyData EXCEPT !.destination = JStr(<<"Greece">>),
                    !.travelers = JStr(<<"2 adults">>),
                    !.duration = JStr(<<"5 days">>)]

RouteRequests ==
  { Request(m, p, FALSE, NonObject("raw")) :
      m \in {"GET", "POST"}, p \in {"/", "/api/plan-trip", "/api/other"} }

DeclaredJson(bodies) ==
  { Request("POST", "/api/plan-trip", TRUE, b) : b \in bodies }

AllRequests ==
  RouteRequests
  \cup DeclaredJson({NonObject("unparseable"), NonObject("null"), NonObject("array")})
  \cup DeclaredJson({Object(d) : d \in FullData})

UpstreamErrors ==
  { <<"Connection error.">>, AuthError, <<"rate_limit_error">> }

Contents ==
  { <<>>, <<ToolUseBlock>>, <<TextBlock(<<"Day 1: Athens">>)>>,
    <<TextBlock(<<"Day 1: Athens">>), TextBlock(<<"Day 2: Delphi">>)>>,
    <<TextBlock(<<"Day 2: Delphi">>), ToolUseBlock>>,
    <<ToolUseBlock, TextBlock(<<"Day 1: Athens">>)>> }

Outcomes(tokens) ==
  { Raise(e) : e \in UpstreamErrors }
  \cup { Return(c, u) : c \in Contents,
           u \in {NoUsage} \cup { Usage(i, o) : i \in tokens, o \in tokens } }

\* Without a credential every call fails at call time.
OutcomesFor(cl, outs) ==
  IF cl.api_key = "" THEN { Raise(AuthError) } ELSE outs

Clients == { [api_key |-> "sk-ant-key"], [api_key |-> ""] }

(***************************************************************************)
(* The state machine.                                                      *)
(***************************************************************************)
Init ==
  /\ client \in Clients
  /\ pc = [r \in Slots |-> "idle"]
  /\ req = [r \in Slots |-> NoReq]
  /\ locals = [r \in Slots |-> NoLocals]
  /\ calls = [r \in Slots |-> <<>>]
  /\ result = [r \in Slots |-> NoResult]
  /\ resp = [r \in Slots |-> NoResp]

\* The locals kept in one module-level variable that every request
\* overwrites: the slot reads whichever blocked request wrote last.
FrameShared(r) == locals[CHOOSE s \in Slots : pc[s] = "calling"]

\* The handler invocation's own frame across the blocking call.
Frame(r) == locals[r]

\* A request arrives at slot r and is handled up to its response or up to
\* the upstream call, in which the slot then blocks.
Receive(r, requests) ==
  /\ pc[r] = "idle"
  /\ \E q \in requests :
       LET d == Dispatch(q)
       IN /\ req' = [req EXCEPT ![r] = q]
          /\ locals' = [locals EXCEPT ![r] = d.locals]
          /\ calls' = [calls EXCEPT ![r] = d.call]
          /\ resp' = [resp EXCEPT ![r] = d.resp]
          /\ pc' = [pc EXCEPT ![r] = IF d.kind = "call" THEN "calling" ELSE "done"]
  /\ UNCHANGED <<client, result>>

\* The upstream call of slot r returns or raises, and the handler responds.
Complete(r, outs) ==
  /\ pc[r] = "calling"
  /\ \E out \in OutcomesFor(client, outs) :
       /\ result' = [result EXCEPT ![r] = out]
       /\ resp' = [resp EXCEPT ![r] = HandleResult(Frame(r), out)]
  /\ pc' = [pc EXCEPT ![r] = "done"]
  /\ UNCHANGED <<client, req, locals, calls>>

\* The response is sent and the slot serves the next request.
Finish(r) ==
  /\ pc[r] = "done"
  /\ pc' = [pc EXCEPT ![r] = "idle"]
  /\ req' = [req EXCEPT ![r] = NoReq]
  /\ locals' = [locals EXCEPT ![r] = NoLocals]
  /\ calls' = [calls EXCEPT ![r] = <<>>]
  /\ result' = [result EXCEPT ![r] = NoResult]
  /\ resp' = [resp EXCEPT ![r] = NoResp]
  /\ UNCHANGED client

\* One worker, every request and every upstream outcome.
SmallTokens == {0, 1234, 1000000}

AllOutcomes == Outcomes(SmallTokens)

Next ==
  \/ Receive(1, AllRequests)
  \/ Complete(1, AllOutcomes)
  \/ Finish(1)

Spec == Init /\ [][Next]_vars

\* One worker, the cost of a successful generation over a range of counts.
CostTokens ==
  {0, 1, 20, 50, 150, 1234, 3350, 31250, 999999, 1000000, 2000000, 100000000}

FullTrip ==
  [destination |-> JStr(<<"Greece">>),
   travelers |-> JStr(<<"Family of 4">>),
   duration |-> JStr(<<"7 days">>),
   dates |-> JStr(<<"June 15-22, 2026">>),
   budget |-> JStr(<<"$8,000-10,000">>),
   departureCity |-> JStr(<<"Austin, Texas">>),
   interests |-> JList(<<JStr(<<"history">>), JStr(<<"food">>), JStr(<<"beaches">>)>>),
   pace |-> JStr(<<"relaxed">>),
   specialRequests |-> JStr(<<"vegetarian", " ", "only">>)]

CostData == {Minimal, FullTrip}

CostOutcomes ==
  { Raise(<<"Connection error.">>) }
  \cup { Return(<<TextBlock(<<"Day 1: Athens">>)>>, Usage(i, o)) :
           i \in CostTokens, o \in CostTokens }

CostRequests == DeclaredJson({Object(d) : d \in CostData})

NextCost ==
  \/ Receive(1, CostRequests)
  \/ Complete(1, CostOutcomes)
  \/ Finish(1)

SpecCost == Init /\ [][NextCost]_vars

\* NumSlots workers serving requests concurrently.
ConcRequests ==
  { Request("GET", "/", FALSE, NonObject("raw")),
    Request("POST", "/api/plan-trip", FALSE, NonObject("raw")) }
  \cup DeclaredJson({ Object(Minimal), Object(FullTrip),
                      Object([FullTrip EXCEPT !.travelers = Absent]) })

ConcOutcomes ==
  { Raise(<<"rate_limit_error">>),
    Return(<<TextBlock(<<"Day 1: Athens">>)>>, Usage(1234, 20)),
    Return(<<TextBlock(<<"Day 2: Delphi">>)>>, Usage(50, 1000000)),
    Return(<<>>, NoUsage) }

NextConc ==
  \E r \in Slots :
    \/ Receive(r, ConcRequests)
    \/ Complete(r, ConcOutcomes)
    \/ Finish(r)

SpecConc == Init /\ [][NextConc]_vars

(***************************************************************************)
(* The claims.                                                             *)
(***************************************************************************)
Done(r) == pc[r] = "done"

PlanTripPost(q) == q.method = "POST" /\ q.path = "/api/plan-trip"

JsonObject(q) == PlanTripPost(q) /\ q.is_json /\ q.body.kind = "object"

\* A field that is absent, null, or an empty string, zero or empty list.
EmptyField(x) ==
  \/ x.k \in {"absent", "null"}
  \/ x.k = "str" /\ Len(x.s) = 0
  \/ x.k = "num" /\ x.n = 0
  \/ x.k = "list" /\ Len(x.l) = 0

SomeRequiredMissing(q) ==
  \E f \in {"destination", "travelers", "duration"} : EmptyField(q.body.data[f])

Validated(q) == JsonObject(q) /\ ~SomeRequiredMissing(q)

IsErrorEnvelope(rs) ==
  /\ rs.json
  /\ DOMAIN rs.body = {"error", "message", "statusCode"}
  /\ rs.body.error = TRUE
  /\ rs.body.statusCode = rs.status

NameIfMissing(data, f) == IF EmptyField(data[f]) THEN <<f>> ELSE <<>>

RECURSIVE CommaSeparated(_)
CommaSeparated(names) ==
  IF Len(names) = 0 THEN <<>>
  ELSE IF Len(names) = 1 THEN names
  ELSE <<names[1], ", ">> \o CommaSeparated(Tail(names))

\* C1: a POST /api/plan-trip with a JSON object body in which a required
\* field is absent or empty is answered 400 with an error envelope whose
\* message lists exactly the missing fields, comma-separated, in the order
\* destination, travelers, duration.
C1_MissingFieldsListed ==
  \A r \in Slots :
    Done(r) /\ JsonObject(req[r]) /\ SomeRequiredMissing(req[r]) =>
      LET data == req[r].body.data
      IN /\ resp[r].status = 400
         /\ IsErrorEnvelope(resp[r])
         /\ resp[r].body.message =
              <<"Missing required fields: ">>
              \o CommaSeparated(NameIfMissing(data, "destination")
                                \o NameIfMissing(data, "travelers")
                                \o NameIfMissing(data, "duration"))

\* Destination and duration are missing, travelers is supplied.
C1_Witness ==
  \E r \in Slots :
    /\ Done(r) /\ JsonObject(req[r])
    /\ EmptyField(req[r].body.data.destination)
    /\ ~EmptyField(req[r].body.data.travelers)
    /\ EmptyField(req[r].body.data.duration)
    /\ resp[r].status = 400

\* C2: a POST /api/plan-trip that is not declared as JSON, or whose
\* required fields are missing, is answered 400 (with the content-type
\* message in the first case) and no upstream call is made for it.
C2_ClientErrorsBeforeCall ==
  \A r \in Slots :
    Done(r) /\ PlanTripPost(req[r]) =>
      /\ ~req[r].is_json =>
           /\ resp[r].status = 400
           /\ IsErrorEnvelope(resp[r])
           /\ resp[r].body.message = <<"Content-Type must be application/json">>
           /\ Len(calls[r]) = 0
      /\ JsonObject(req[r]) /\ SomeRequiredMissing(req[r]) =>
           /\ resp[r].status = 400
           /\ Len(calls[r]) = 0

C2_Witness ==
  \E r \in Slots :
    /\ Done(r) /\ PlanTripPost(req[r]) /\ ~req[r].is_json
    /\ resp[r].status = 400 /\ Len(calls[r]) = 0

\* C3: a POST /api/plan-trip that passes validation, whatever its optional
\* fields hold, has issued exactly one upstream call when it responds.
C3_ExactlyOneCall ==
  \A r \in Slots : Done(r) /\ Validated(req[r]) => Len(calls[r]) = 1

WellFormed(out) ==
  /\ out.kind = "return"
  /\ Len(out.content) > 0
  /\ out.content[1].type = "text"
  /\ out.usage.present

Failed(out) == out.kind = "raise" \/ (out.kind = "return" /\ ~WellFormed(out))

TextAtoms(out) ==
  UNION { { out.content[i].text[j] : j \in 1..Len(out.content[i].text) } :
            i \in 1..Len(out.content) }

\* C4: when the upstream call raises or returns a malformed result, the
\* response is 500 with an error envelope of exactly error, message and
\* statusCode; the message carries the stringified failure, and nothing
\* of the generated text.
C4_UpstreamFailureIs500 ==
  \A r \in Slots :
    Done(r) /\ Failed(result[r]) =>
      /\ resp[r].status = 500
      /\ IsErrorEnvelope(resp[r])
      /\ Len(resp[r].body.message) >= 2
      /\ resp[r].body.message[1] = "Error generating itinerary: "
      /\ result[r].kind = "raise" =>
           resp[r].body.message = <<"Error generating itinerary: ">> \o result[r].error
      /\ \A i \in 1..Len(resp[r].body.message) :
           resp[r].body.message[i] \notin TextAtoms(result[r])

\* The text was returned and the usage metadata was not.
C4_Witness ==
  \E r \in Slots :
    /\ Done(r) /\ result[r].kind = "return"
    /\ Len(result[r].content) > 0 /\ result[r].content[1].type = "text"
    /\ ~result[r].usage.present
    /\ resp[r].status = 500

\* C5: every response other than the 200 success is an error envelope
\* whose statusCode is the HTTP status.
C5_UniformErrorShape ==
  \A r \in Slots : Done(r) /\ resp[r].status # 200 => IsErrorEnvelope(resp[r])

Supplied(data, f, default) == IF data[f].k = "absent" THEN default ELSE data[f]

\* C6: when the upstream call returns a well-formed result, the response
\* is 200 with the first text segment as itinerary, the reported token
\* counts, the request's destination, travelers, duration, dates and
\* budget, the joined interests, and the model identifier of the call.
C6_SuccessEnvelope ==
  \A r \in Slots :
    Done(r) /\ WellFormed(result[r]) =>
      LET data == req[r].body.data
          b == resp[r].body
          prompt == calls[r][1].messages[1].content
      IN /\ resp[r].status = 200
         /\ resp[r].json
         /\ b.success = TRUE
         /\ b.itinerary = result[r].content[1].text
         /\ b.metadata.inputTokens = result[r].usage.input_tokens
         /\ b.metadata.outputTokens = result[r].usage.output_tokens
         /\ b.destination = data.destination
         /\ b.summary.travelers = data.travelers
         /\ b.summary.duration = data.duration
         /\ b.summary.dates = Supplied(data, "dates", JStr(<<"Flexible">>))
         /\ b.summary.budget = Supplied(data, "budget", JStr(<<"Moderate budget">>))
         /\ prompt[10] = <<"- Interests: ">> \o b.summary.interests
         /\ b.metadata.model = <<"claude-sonnet-4-5-20250929">>
         /\ b.metadata.model = calls[r][1].model

\* Two text segments were returned.
C6_Witness ==
  \E r \in Slots :
    /\ Done(r) /\ WellFormed(result[r]) /\ Len(result[r].content) = 2
    /\ result[r].content[2].type = "text"
    /\ resp[r].status = 200

Called(r) == Len(calls[r]) = 1

TextOf(data, f, default) == IF data[f].k = "absent" THEN default ELSE data[f].s

\* The items of a list of one-atom strings, ", " between them.
Interleaved(l) ==
  [i \in 1..(IF Len(l) = 0 THEN 0 ELSE 2 * Len(l) - 1) |->
     IF i % 2 = 1 THEN l[(i + 1) \div 2].s[1] ELSE ", "]

ExpectedInterests(x) ==
  IF x.k = "absent" THEN <<"sightseeing", ", ", "culture", ", ", "food">>
  ELSE IF x.k = "list" THEN Interleaved(x.l)
  ELSE Interleaved([i \in 1..Len(x.s) |-> JStr(<<x.s[i]>>)])

\* C7: in the rendered task prompt and in the echoed summary each optional
\* field the body does not supply takes its default, a supplied value is
\* used in place of the default, and a supplied interests sequence is
\* joined with ", " in its order.
C7_DefaultsApplied ==
  \A r \in Slots :
    Called(r) =>
      LET data == req[r].body.data
          prompt == calls[r][1].messages[1].content
      IN /\ prompt[7] = <<"- Travel Dates: ">> \o TextOf(data, "dates", <<"Flexible">>)
         /\ prompt[8] = <<"- Budget: ">> \o TextOf(data, "budget", <<"Moderate budget">>)
         /\ prompt[9] = <<"- Departing From: ">>
                        \o TextOf(data, "departureCity", <<"United States">>)
         /\ prompt[10] = <<"- Interests: ">> \o ExpectedInterests(data.interests)
         /\ prompt[11] = <<"- Preferred Pace: ">> \o TextOf(data, "pace", <<"moderate">>)
         /\ data.specialRequests.k = "absent" => prompt[12] = <<>>
         /\ Len(data.specialRequests.s) > 0 =>
              prompt[12] = <<"- Special Requests: ">> \o data.specialRequests.s
         /\ resp[r].status = 200 =>
              /\ resp[r].body.summary.dates.s = TextOf(data, "dates", <<"Flexible">>)
              /\ resp[r].body.summary.budget.s
                   = TextOf(data, "budget", <<"Moderate budget">>)
              /\ resp[r].body.summary.interests = ExpectedInterests(data.interests)

\* Dates supplied (as the empty string), budget and interests defaulted.
C7_Witness ==
  \E r \in Slots :
    /\ Called(r) /\ resp[r].status = 200
    /\ req[r].body.data.dates = JStr(<<>>)
    /\ req[r].body.data.budget = Absent
    /\ req[r].body.data.interests = Absent
    /\ req[r].body.data.pace # Absent

IsSpecialRequestsLine(line) ==
  Len(line) > 0 /\ line[1] = "- Special Requests: "

EndsWith(line, text) ==
  /\ Len(line) >= Len(text)
  /\ SubSeq(line, Len(line) - Len(text) + 1, Len(line)) = text

\* The task template without its conditional line.
TemplateWithoutSpecialRequests(v) ==
  SubSeq(TemplateHead(v), 1, 11) \o <<<<>>>> \o TemplateTail

\* C8: the Special Requests line is in the rendered task prompt exactly
\* when specialRequests is non-empty, and then ends with the supplied
\* text; otherwise the prompt has the lines of the template without it.
C8_NoPlaceholderLine ==
  \A r \in Slots :
    Called(r) =>
      LET special == req[r].body.data.specialRequests
          prompt == calls[r][1].messages[1].content
          at == { i \in 1..Len(prompt) : IsSpecialRequestsLine(prompt[i]) }
      IN /\ ~EmptyField(special) =>
              /\ Cardinality(at) = 1
              /\ \A i \in at : EndsWith(prompt[i], special.s)
         /\ EmptyField(special) =>
              /\ at = {}
              /\ prompt = TemplateWithoutSpecialRequests(locals[r])

Digit(d) == d \in {"0", "1", "2", "3", "4", "5", "6", "7", "8", "9"}

DigitValue(d) ==
  CASE d = "0" -> 0 [] d = "1" -> 1 [] d = "2" -> 2 [] d = "3" -> 3
    [] d = "4" -> 4 [] d = "5" -> 5 [] d = "6" -> 6 [] d = "7" -> 7
    [] d = "8" -> 8 [] d = "9" -> 9

\* C9: the estimated cost is "$" and an amount with exactly 4 decimal
\* places, the amount is 3 dollars per million input tokens plus 15 per
\* million output tokens to the nearest ten-thousandth, it is the same for
\* every request with these token counts, and it is "$18.0000" for
\* 1,000,000 and 1,000,000 tokens and "$0.0000" for 0 and 0.
C9_EstimatedCost ==
  \A r \in Slots :
    Done(r) /\ resp[r].status = 200 =>
      LET i == result[r].usage.input_tokens
          o == result[r].usage.output_tokens
          c == resp[r].body.metadata.estimatedCost
          micros == 3 * i + 15 * o
      IN /\ Len(c) = 7
         /\ c[1] = "$"
         /\ c[3] = "."
         /\ \A k \in 4..7 : Digit(c[k])
         /\ \E whole \in 0..(micros \div 1000000 + 1) :
              /\ c[2] = ToString(whole)
              /\ LET shown == 1000000 * whole + 100000 * DigitValue(c[4])
                              + 10000 * DigitValue(c[5]) + 1000 * DigitValue(c[6])
                              + 100 * DigitValue(c[7])
                 IN shown - micros \in -50..50
         /\ \A d \in CostData :
              HandleResult(ExtractData(d), result[r]).body.metadata.estimatedCost = c
         /\ i = 1000000 /\ o = 1000000 => c = <<"$", "18", ".", "0", "0", "0", "0">>
         /\ i = 0 /\ o = 0 => c = <<"$", "0", ".", "0", "0", "0", "0">>

\* 20 input tokens cost 60 millionths of a dollar, shown as $0.0001.
C9_Witness ==
  \E r \in Slots :
    /\ Done(r) /\ resp[r].status = 200
    /\ result[r].usage.input_tokens = 20 /\ result[r].usage.output_tokens = 0
    /\ resp[r].body.metadata.estimatedCost = <<"$", "0", ".", "0", "0", "0", "1">>

\* What the handler answers to request q alone, given the outcome of its
\* own upstream call.
ResponseAlone(q, out) ==
  LET d == Dispatch(q)
  IN IF d.kind = "respond" THEN d.resp ELSE HandleResult(d.locals, out)

SlotState(r) == <<pc[r], req[r], locals[r], calls[r], result[r], resp[r]>>

\* C10: under every interleaving each response is the one the handler
\* gives to that request alone with the outcome of its own upstream call,
\* a step of one request changes nothing of another, and the upstream
\* client is never changed.
C10_RequestsIndependent ==
  /\ [](\A r \in Slots :
          /\ Done(r) => resp[r] = ResponseAlone(req[r], result[r])
          /\ pc[r] = "calling" => calls[r] = Dispatch(req[r]).call)
  /\ [][/\ client' = client
        /\ \A r, s \in Slots :
             r # s /\ SlotState(r)' # SlotState(r) => SlotState(s)' = SlotState(s)]_vars

\* Request 1 was answered while request 2, a different one, was still
\* blocked in its upstream call.
C10_Witness ==
  /\ Done(1) /\ resp[1].status = 200
  /\ pc[2] = "calling"
  /\ req[1] # req[2]

====
